---- MODULE Spec2Model ----
(***************************************************************************)
(* Model of the multi-object tracker of src/src/tracking/tracker.py:       *)
(* the overlap metric iou, the Track entity and MultiObjectTracker.update  *)
(* with its matching, birth, aging and pruning passes.                     *)
(*                                                                         *)
(* Coordinates are integers in tenths of a unit, scores in hundredths.     *)
(* An overlap value is the exact rational <<numerator, denominator>>; the  *)
(* comparisons of the code are done by cross-multiplication.  A detection  *)
(* is a function whose DOMAIN is the set of keys the dictionary holds, so  *)
(* det.get(k, d) is DetGet(det, k, d) and a missing key is a key outside   *)
(* the DOMAIN.  The tracks dictionary is the sequence of its values in     *)
(* insertion order.  None, as a track id, is 0.                            *)
(*                                                                         *)
(* Around the tracker: several instances side by side, the offline replay  *)
(* of a log, the coordinator's event loop, the alert debounce and the live *)
(* paths that feed the tracker one detection at a time.  Each of them has  *)
(* a variable of its own and a specification that leaves the others idle.  *)
(***************************************************************************)
EXTENDS Integers, Sequences, FiniteSets, TLC

VARIABLES
    iou_threshold,   \* self.iou_threshold, a rational <<n, d>>
    max_missed,      \* self.max_missed
    tracks,          \* self.tracks, values in insertion order
    next_id,         \* self._next_id
    result,          \* the list the last update call returned
    call,            \* the last update call: its arguments and what its passes did
    run,             \* per live id: update calls since it was created or last matched
    labels,          \* per live id: the labels of the detections that created or matched it
    birthcat,        \* per live id: the category the track was created with
    gone,            \* the ids update has removed
    created,         \* the ids _new_track handed out, in order
    feed,            \* the name of the feed the caller draws the detections from
    scen,            \* how far the calls so far follow the end-to-end scenario
    track_events,    \* replay_tracking's list of track_update events
    iou_call,        \* a direct call of iou: its two boxes and what it returned
    audit,           \* whether the record of a call keeps the tracks the call found
    fleet,           \* several MultiObjectTracker instances and the dictionaries they hold
    coord,           \* ObjectTrackingCoordinator.run: its position, its tasks and their threads
    alerts,          \* the debounce state of alert_tools and the clock
    session,         \* the tracker of tracking_tools, the handlers and the adk_app loop
    replay           \* replay_tracking over a log: the lines, the groups and the position

\* The variables of the programs around the single tracker.
others == <<fleet, coord, alerts, session, replay>>

vars == <<iou_threshold, max_missed, tracks, next_id, result, call, run,
          labels, birthcat, gone, created, feed, scen, track_events, iou_call, audit,
          others>>

-----------------------------------------------------------------------------
(* Bounds *)

MaxDets == 2        \* detections in one batch
MaxTracks == 2      \* tracks created over a tracker's lifetime
MaxFrame == 3       \* largest frame_id passed to update
MaxMissedBound == 1 \* largest configured max_missed
MaxCoord == 3       \* largest coordinate of a box handed to iou directly
MaxInstances == 2   \* MultiObjectTracker instances alive together

-----------------------------------------------------------------------------
(* Values *)

None == 0
Absent == "<absent>"

Max(a, b) == IF a >= b THEN a ELSE b
Min(a, b) == IF a <= b THEN a ELSE b

Zero == <<0, 1>>
RatGT(a, b) == a[1] * b[2] > b[1] * a[2]
RatGE(a, b) == a[1] * b[2] >= b[1] * a[2]

Range(s) == {s[i] : i \in 1..Len(s)}

\* Boxes of the tests: [0,0,2,2] and [0.1,0,2.1,2], in tenths.
BoxA == <<0, 0, 20, 20>>
BoxDrift == <<1, 0, 21, 20>>
ShortBox == <<0, 0>>
\* A box inside BoxA with 3/10 of its area, and one that touches none of the others.
BoxEdge == <<0, 0, 6, 20>>
BoxFar == <<50, 50, 70, 70>>

\* The default of __init__, line 82.
IouThresholds == {<<3, 10>>}

\* The default and the least threshold a caller can configure.
GradedThresholds == {<<0, 1>>, <<3, 10>>}

DetGet(det, key, default) == IF key \in DOMAIN det THEN det[key] ELSE default

Car(bbox, score) == [category |-> "car", bbox |-> bbox, score |-> score]

\* What a detector feeds the tracker, by the name of the feed:
\* the detections of the tests and a bus at the place of the first car;
\* a car and an object without a label at its place;
\* a car and an object with an empty label at its place;
\* a car, a detection without a box and one with a short box;
\* the two detections of the end-to-end scenario;
\* cars whose overlap with the first car is 1, 3/10 and 0, and a bus;
\* the same without the car that is apart;
\* a car and a bus at the same place, as a log holds them.
Labelled ==
    {Car(BoxA, 90), Car(BoxDrift, 88), [category |-> "bus", bbox |-> BoxA, score |-> 90]}
Unlabelled == {Car(BoxA, 90), [bbox |-> BoxA, score |-> 90]}
EmptyLabel == {Car(BoxA, 90), [category |-> "", bbox |-> BoxA, score |-> 90]}
Malformed ==
    {Car(BoxA, 90), Car(BoxDrift, 88), Car(ShortBox, 88), [category |-> "car", score |-> 90]}
Scripted == {Car(BoxA, 90), Car(BoxDrift, 88)}
Graded ==
    {Car(BoxA, 90), Car(BoxEdge, 88), Car(BoxFar, 88),
     [category |-> "bus", bbox |-> BoxA, score |-> 90]}
Edge == {Car(BoxA, 90), Car(BoxEdge, 88), [category |-> "bus", bbox |-> BoxA, score |-> 90]}
Logged == {Car(BoxA, 90), [category |-> "bus", bbox |-> BoxA, score |-> 90]}

RECURSIVE SeqsUpTo(_, _)
SeqsUpTo(S, n) ==
    IF n = 0 THEN {<<>>}
    ELSE LET shorter == SeqsUpTo(S, n - 1)
         IN  shorter \cup {Append(s, x) : s \in {t \in shorter : Len(t) = n - 1}, x \in S}

LabelledBatches == SeqsUpTo(Labelled, MaxDets)
UnlabelledBatches == SeqsUpTo(Unlabelled, MaxDets)
EmptyLabelBatches == SeqsUpTo(EmptyLabel, MaxDets)
MalformedBatches == SeqsUpTo(Malformed, MaxDets)
ScriptedBatches == SeqsUpTo(Scripted, MaxDets)
GradedBatches == SeqsUpTo(Graded, MaxDets)
EdgeBatches == SeqsUpTo(Edge, MaxDets)
LoggedBatches == SeqsUpTo(Logged, MaxDets)

Batches(name) ==
    CASE name = "labelled" -> LabelledBatches
      [] name = "unlabelled" -> UnlabelledBatches
      [] name = "empty label" -> EmptyLabelBatches
      [] name = "malformed" -> MalformedBatches
      [] name = "scripted" -> ScriptedBatches
      [] name = "graded" -> GradedBatches
      [] name = "edge" -> EdgeBatches
      [] name = "logged" -> LoggedBatches

-----------------------------------------------------------------------------
(* iou *)

ExtentClosed(lo, hi) == Max(0, hi - lo + 1)

\* max(0.0, hi - lo), lines 34-35 and 38-39.
Extent(lo, hi) == Max(0, hi - lo)

UnionOfFirst(area_a, area_b, inter_area) == area_a

UnionCountsTwice(area_a, area_b, inter_area) == area_a + area_b

\* Line 40.
Union(area_a, area_b, inter_area) == area_a + area_b - inter_area

iou(box_a, box_b) ==
    IF Len(box_a) # 4 \/ Len(box_b) # 4 THEN Zero
    ELSE LET inter_x1 == Max(box_a[1], box_b[1])
             inter_y1 == Max(box_a[2], box_b[2])
             inter_x2 == Min(box_a[3], box_b[3])
             inter_y2 == Min(box_a[4], box_b[4])
             inter_w == Extent(inter_x1, inter_x2)
             inter_h == Extent(inter_y1, inter_y2)
             inter_area == inter_w * inter_h
             area_a == Extent(box_a[1], box_a[3]) * Extent(box_a[2], box_a[4])
             area_b == Extent(box_b[1], box_b[3]) * Extent(box_b[2], box_b[4])
             union == Union(area_a, area_b, inter_area)
         IN  IF union <= 0 THEN Zero ELSE <<inter_area, union>>

-----------------------------------------------------------------------------
(* Track and the tracks dictionary *)

Track(track_id, category, bbox, score, start_frame, last_frame) ==
    [track_id |-> track_id, category |-> category, bbox |-> bbox, score |-> score,
     start_frame |-> start_frame, last_frame |-> last_frame, misses |-> 0]

AgeExclusive(track) == track.last_frame - track.start_frame

age(track) == track.last_frame - track.start_frame + 1

to_event_details(track) ==
    [track_id |-> track.track_id, category |-> track.category, bbox |-> track.bbox,
     score |-> track.score, start_frame |-> track.start_frame,
     last_frame |-> track.last_frame, misses |-> track.misses, age |-> age(track)]

Keys(d) == [i \in 1..Len(d) |-> d[i].track_id]

DictGet(d, track_id) == d[CHOOSE i \in 1..Len(d) : d[i].track_id = track_id]

\* d[track_id] = track: a key the dictionary holds keeps its place.
DictSet(d, track_id, track) ==
    IF \E i \in 1..Len(d) : d[i].track_id = track_id
    THEN [i \in 1..Len(d) |-> IF d[i].track_id = track_id THEN track ELSE d[i]]
    ELSE Append(d, track)

RECURSIVE DictDel(_, _)
DictDel(d, track_id) ==
    IF d = <<>> THEN <<>>
    ELSE IF Head(d).track_id = track_id THEN Tail(d)
    ELSE <<Head(d)>> \o DictDel(Tail(d), track_id)

-----------------------------------------------------------------------------
(* MultiObjectTracker._new_track *)

NextIdStuck(n) == n

NextId(n) == n + 1

NewTrackCategory(det) == DetGet(det, "category", "unknown")

NewTrackBBox(det) == DetGet(det, "bbox", <<0, 0, 0, 0>>)

twin_track(st, det, frame_id) ==
    LET track == Track(st.next_id, NewTrackCategory(det), NewTrackBBox(det),
                       DetGet(det, "score", 0), frame_id, frame_id)
    IN  [st EXCEPT !.tracks = DictSet(@, track.track_id, track),
                   !.next_id = NextId(NextId(@)),
                   !.born = Append(@, track.track_id)]

new_track(st, det, frame_id) ==
    LET track == Track(st.next_id, NewTrackCategory(det), NewTrackBBox(det),
                       DetGet(det, "score", 0), frame_id, frame_id)
    IN  [st EXCEPT !.tracks = DictSet(@, track.track_id, track),
                   !.next_id = NextId(@),
                   !.born = Append(@, track.track_id)]

-----------------------------------------------------------------------------
(* MultiObjectTracker._match_detection *)

Truthy(cat) == cat # Absent /\ cat # ""

NoCategoryCheck(det_cat, track_cat) == FALSE

InvertedCategoryCheck(det_cat, track_cat) == Truthy(det_cat) /\ track_cat = det_cat

CategoryMismatch(det_cat, track_cat) == Truthy(det_cat) /\ track_cat # det_cat

LastCandidate(candidate_iou, best_iou) == TRUE

AtLeastAsGood(candidate_iou, best_iou) == RatGE(candidate_iou, best_iou)

BetterIou(candidate_iou, best_iou) == RatGT(candidate_iou, best_iou)

RefuseMatch(best_track_id, best_iou, threshold) == FALSE

AcceptMatch(best_track_id, best_iou, threshold) ==
    best_track_id # None /\ RatGE(best_iou, threshold)

RECURSIVE MatchLoop(_, _, _, _, _, _)
MatchLoop(d, det_box, det_cat, iterable, best_iou, best_track_id) ==
    IF iterable = <<>> THEN <<best_iou, best_track_id>>
    ELSE LET track_id == Head(iterable)
             track == DictGet(d, track_id)
             candidate_iou == iou(det_box, track.bbox)
         IN  IF CategoryMismatch(det_cat, track.category)
             THEN MatchLoop(d, det_box, det_cat, Tail(iterable), best_iou, best_track_id)
             ELSE IF BetterIou(candidate_iou, best_iou)
             THEN MatchLoop(d, det_box, det_cat, Tail(iterable), candidate_iou, track_id)
             ELSE MatchLoop(d, det_box, det_cat, Tail(iterable), best_iou, best_track_id)

match_detection(d, threshold, det, candidate_track_ids) ==
    IF "bbox" \notin DOMAIN det THEN None
    ELSE LET best == MatchLoop(d, det.bbox, DetGet(det, "category", Absent),
                               candidate_track_ids, Zero, None)
         IN  IF AcceptMatch(best[2], best[1], threshold) THEN best[2] ELSE None

-----------------------------------------------------------------------------
(* MultiObjectTracker.update *)

KeepAvailable(available_tracks, match_id) == available_tracks

RemoveAvailable(available_tracks, match_id) ==
    SelectSeq(available_tracks, LAMBDA t : t # match_id)

MatchedTrackKeepsMisses(track, det, frame_id) ==
    [track EXCEPT !.bbox = DetGet(det, "bbox", track.bbox),
                  !.score = DetGet(det, "score", track.score),
                  !.last_frame = frame_id]

MatchedTrackKeepsBox(track, det, frame_id) ==
    [track EXCEPT !.score = DetGet(det, "score", track.score),
                  !.last_frame = frame_id,
                  !.misses = 0]

\* The track a detection was matched to, lines 144-148.
MatchedTrack(track, det, frame_id) ==
    [track EXCEPT !.bbox = DetGet(det, "bbox", track.bbox),
                  !.score = DetGet(det, "score", track.score),
                  !.last_frame = frame_id,
                  !.misses = 0]

\* Associate detections to existing tracks, lines 135-152.
RECURSIVE MatchPass(_, _, _, _, _)
MatchPass(st, threshold, detections, idx, frame_id) ==
    IF idx > Len(detections) THEN st
    ELSE LET det == detections[idx]
             match_id == match_detection(st.tracks, threshold, det, st.available_tracks)
             seen == [st EXCEPT !.candidates = Append(@, st.available_tracks),
                                !.match_ids = Append(@, match_id)]
         IN  IF match_id = None
             THEN MatchPass(seen, threshold, detections, idx + 1, frame_id)
             ELSE MatchPass(
                    [seen EXCEPT
                       !.tracks = DictSet(@, match_id,
                                          MatchedTrack(DictGet(st.tracks, match_id), det, frame_id)),
                       !.matched_track_ids = @ \cup {match_id},
                       !.matched_detection_indices = @ \cup {idx},
                       !.available_tracks = RemoveAvailable(@, match_id)],
                    threshold, detections, idx + 1, frame_id)

\* Create new tracks for unmatched detections, lines 154-158.
RECURSIVE BirthPass(_, _, _, _)
BirthPass(st, detections, idx, frame_id) ==
    IF idx > Len(detections) THEN st
    ELSE IF idx \in st.matched_detection_indices
    THEN BirthPass([st EXCEPT !.born = Append(@, None)], detections, idx + 1, frame_id)
    ELSE BirthPass(new_track(st, detections[idx], frame_id), detections, idx + 1, frame_id)

SkipAging(track_id, matched_track_ids) == track_id \in matched_track_ids

AgedMissesStuck(misses) == misses

AgedMisses(misses) == misses + 1

IsStaleAtOnce(misses, limit) == misses > 0

IsStaleLate(misses, limit) == misses > limit + 1

IsStaleEarly(misses, limit) == misses >= limit

IsStale(misses, limit) == misses > limit

\* Increment miss counts for unmatched tracks, lines 161-167.
Aged(d, matched_track_ids) ==
    [i \in 1..Len(d) |->
        IF SkipAging(d[i].track_id, matched_track_ids) THEN d[i]
        ELSE [d[i] EXCEPT !.misses = AgedMisses(@)]]

ToRemove(d, matched_track_ids, limit) ==
    Keys(SelectSeq(d, LAMBDA t : /\ ~SkipAging(t.track_id, matched_track_ids)
                                 /\ IsStale(t.misses, limit)))

DelNone(d, to_remove) == d

RECURSIVE DelAll(_, _)
DelAll(d, to_remove) ==
    IF to_remove = <<>> THEN d ELSE DelAll(DictDel(d, Head(to_remove)), Tail(to_remove))

\* update(detections, frame_id) on a tracker whose fields are d, n, threshold
\* and limit: the fields after the call, the list returned and what each pass did.
update(d, n, threshold, limit, detections, frame_id) ==
    LET start == [tracks |-> d, next_id |-> n,
                  available_tracks |-> Keys(d),
                  matched_track_ids |-> {}, matched_detection_indices |-> {},
                  candidates |-> <<>>, match_ids |-> <<>>, born |-> <<>>]
        matched == MatchPass(start, threshold, detections, 1, frame_id)
        born == BirthPass(matched, detections, 1, frame_id)
        aged == Aged(born.tracks, born.matched_track_ids)
        to_remove == ToRemove(aged, born.matched_track_ids, limit)
        kept == DelAll(aged, to_remove)
    IN  [tracks |-> kept,
         next_id |-> born.next_id,
         returned |-> [i \in 1..Len(kept) |-> to_event_details(kept[i])],
         candidates |-> born.candidates,
         match_ids |-> born.match_ids,
         born |-> born.born,
         aged |-> aged,
         to_remove |-> to_remove]

-----------------------------------------------------------------------------
(* The end-to-end scenario of tests/test_tracker.py, lines 10-21, continued *)
(* with empty frames: the calls, in order.                                  *)

ScenarioThreshold == <<1, 5>>
ScenarioMaxMissed == 2

Scenario ==
    << <<(<<Car(BoxA, 90)>>), 0>>,
       <<(<<Car(BoxDrift, 88)>>), 1>>,
       <<(<<>>), 2>>,
       <<(<<>>), 3>>,
       <<(<<>>), 4>> >>

\* The calls have left the scenario.
Off == Len(Scenario) + 1

ScenarioStep(at, detections, frame_id) ==
    IF at < Len(Scenario) /\ Scenario[at + 1] = <<detections, frame_id>>
    THEN at + 1 ELSE Off

-----------------------------------------------------------------------------
(* The tracker as a state machine *)

\* No MultiObjectTracker has been constructed besides the single one.
NoFleet == [heap |-> <<>>, trackers |-> <<>>, acted |-> None, frame_id |-> -1]

\* The coordinator is not running, no alert was asked for, no handler exists
\* and no log is being replayed.
NoCoord == [pc |-> "off"]
NoAlerts == [pc |-> "off"]
NoSession == [pc |-> "off"]
NoReplay == [pc |-> "off"]

OthersIdle ==
    /\ fleet = NoFleet
    /\ coord = NoCoord
    /\ alerts = NoAlerts
    /\ session = NoSession
    /\ replay = NoReplay

NoCall == [detections |-> <<>>, frame_id |-> -1, before |-> <<>>, before_next_id |-> 1,
           candidates |-> <<>>,
           match_ids |-> <<>>, born |-> <<>>, attached_category |-> <<>>,
           to_remove |-> <<>>, removed_misses |-> <<>>, removed_run |-> <<>>]

Fresh ==
    /\ tracks = <<>>
    /\ next_id = 1
    /\ result = <<>>
    /\ call = NoCall
    /\ run = <<>>
    /\ labels = <<>>
    /\ birthcat = <<>>
    /\ gone = {}
    /\ created = <<>>
    /\ track_events = <<>>

\* No direct call of iou is under way.
NoIouCall == [box_a |-> <<>>, box_b |-> <<>>, returned |-> Absent]

Configured ==
    /\ iou_threshold \in IouThresholds
    /\ max_missed \in 0..MaxMissedBound
    /\ scen = Off

Init == Configured /\ Fresh /\ feed = "labelled" /\ iou_call = NoIouCall /\ audit = FALSE /\ OthersIdle

\* The id a detection of a call was attached to, by matching or by birth.
Attached(r, i) == IF r.match_ids[i] # None THEN r.match_ids[i] ELSE r.born[i]

\* update(detections, frame_id) on the tracker.  A track is born for every
\* detection that finds no live track, so the first guard only spares the
\* evaluation of calls the second one refuses.
Update(detections, frame_id) ==
    /\ Len(created) + Len(detections) - Len(tracks) <= MaxTracks
    /\ \E r \in {update(tracks, next_id, iou_threshold, max_missed, detections, frame_id)} :
         LET newborn == SelectSeq(r.born, LAMBDA t : t # None)
             live == Range(Keys(r.tracks))
             touched == Range(r.match_ids) \cup Range(r.born)
             ran == [t \in Range(Keys(r.aged)) |->
                       IF t \in touched THEN 0 ELSE Min(run[t] + 1, max_missed + 1)]
         IN  /\ Len(created) + Len(newborn) <= MaxTracks
             /\ tracks' = r.tracks
             /\ next_id' = r.next_id
             /\ result' = r.returned
             /\ call' = [detections |-> detections, frame_id |-> frame_id,
                         before |-> IF audit THEN tracks ELSE <<>>,
                         before_next_id |-> next_id,
                         candidates |-> r.candidates, match_ids |-> r.match_ids,
                         born |-> r.born,
                         attached_category |-> [i \in 1..Len(detections) |->
                                                  DictGet(r.aged, Attached(r, i)).category],
                         to_remove |-> r.to_remove,
                         removed_misses |-> [i \in 1..Len(r.to_remove) |->
                                               DictGet(r.aged, r.to_remove[i]).misses],
                         removed_run |-> [i \in 1..Len(r.to_remove) |-> ran[r.to_remove[i]]]]
             /\ created' = created \o newborn
             /\ gone' = gone \cup Range(r.to_remove)
             /\ run' = [t \in live |-> ran[t]]
             /\ labels' = [t \in live |->
                          (IF t \in DOMAIN labels THEN labels[t] ELSE {})
                          \cup {c \in {DetGet(detections[i], "category", Absent) :
                                        i \in {j \in 1..Len(detections) : Attached(r, j) = t}} :
                                  Truthy(c)}]
             /\ birthcat' = [t \in live |->
                          IF t \in DOMAIN birthcat THEN birthcat[t]
                          ELSE NewTrackCategory(
                                 detections[CHOOSE i \in 1..Len(detections) : r.born[i] = t])]
             /\ scen' = ScenarioStep(scen, detections, frame_id)
             /\ UNCHANGED <<iou_threshold, max_missed, feed, iou_call, audit, others>>

\* One update call, its batch drawn from the feed and its frame_id the next one.
Call(last_frame) ==
    \E detections \in Batches(feed) :
        \E frame_id \in {call.frame_id + 1} \cap 0..last_frame :
            Update(detections, frame_id) /\ UNCHANGED track_events

Next == Call(MaxFrame)

Spec == Init /\ [][Next]_vars

\* The tracker fed detections that carry no label, or an empty one.
LooseInit ==
    /\ Configured /\ Fresh /\ feed \in {"unlabelled", "empty label"}
    /\ iou_call = NoIouCall /\ audit = FALSE /\ OthersIdle

LooseSpec == LooseInit /\ [][Next]_vars

\* The tracker fed detections without a usable box.
MalformedInit ==
    Configured /\ Fresh /\ feed = "malformed" /\ iou_call = NoIouCall /\ audit = FALSE /\ OthersIdle

MalformedSpec == MalformedInit /\ [][Next]_vars

\* The scenario's tracker, fed batches of the scenario's own detections.
ScenarioInit ==
    /\ iou_threshold = ScenarioThreshold
    /\ max_missed = ScenarioMaxMissed
    /\ scen = 0
    /\ Fresh
    /\ feed = "scripted"
    /\ iou_call = NoIouCall
    /\ audit = TRUE /\ OthersIdle

ScenarioNext == Call(Len(Scenario) - 1)

\* The tracker configured with the default threshold or with 0, fed cars
\* whose overlaps lie on, above and below the threshold.
ThresholdInit ==
    /\ iou_threshold \in GradedThresholds
    /\ max_missed = MaxMissedBound
    /\ scen = Off
    /\ Fresh
    /\ feed = "graded"
    /\ iou_call = NoIouCall
    /\ audit = TRUE /\ OthersIdle

ThresholdSpec == ThresholdInit /\ [][Next]_vars

\* The tracker with the default threshold, fed cars of which one overlaps
\* the other by exactly the threshold, and a bus.
EdgeInit ==
    /\ iou_threshold \in IouThresholds
    /\ max_missed = 1
    /\ scen = Off
    /\ Fresh
    /\ feed = "edge"
    /\ iou_call = NoIouCall
    /\ audit = TRUE /\ OthersIdle

EdgeSpec == EdgeInit /\ [][Next]_vars

ScenarioSpec == ScenarioInit /\ [][ScenarioNext]_vars

-----------------------------------------------------------------------------
(* replay_tracking of src/src/tracking/offline_pipeline.py: a tracker with *)
(* the default configuration is fed the detections of a log, grouped by    *)
(* frame in ascending order, and every track state an update returns is    *)
(* emitted as a track_update event.  Timestamps are left out.              *)

DefaultMaxMissed == 8

TrackUpdate(track_state) == [event_type |-> "track_update", details |-> track_state]

ReplayInit ==
    /\ iou_threshold \in IouThresholds
    /\ max_missed = DefaultMaxMissed
    /\ scen = Off
    /\ Fresh
    /\ feed = "logged"
    /\ iou_call = NoIouCall
    /\ audit = FALSE /\ OthersIdle

\* One turn of the loop of lines 57-70: a frame of the log holds at least
\* one detection.
ReplayFrame(last_frame) ==
    \E detections \in Batches(feed) \ {<<>>} :
        \E frame_id \in {call.frame_id + 1} \cap 0..last_frame :
            /\ Update(detections, frame_id)
            /\ track_events' =
                  track_events \o [k \in 1..Len(result') |-> TrackUpdate(result'[k])]

ReplayNext == ReplayFrame(MaxFrame)

ReplaySpec == ReplayInit /\ [][ReplayNext]_vars

-----------------------------------------------------------------------------
(* iou called directly, on boxes with integer coordinates and on lists     *)
(* that are not boxes.                                                     *)

WellFormed == {<<x1, y1, x2, y2>> : x1 \in 0..MaxCoord, y1 \in 0..MaxCoord,
                                    x2 \in 0..MaxCoord, y2 \in 0..MaxCoord}

IllFormed == {<<>>, ShortBox, <<0, 0, 1, 1, 1>>}

Boxes == WellFormed \cup IllFormed

IouInit ==
    /\ iou_threshold \in IouThresholds
    /\ max_missed = MaxMissedBound
    /\ scen = Off
    /\ Fresh
    /\ feed = "labelled"
    /\ iou_call = NoIouCall
    /\ audit = FALSE /\ OthersIdle

IouCall ==
    /\ iou_call = NoIouCall
    /\ \E box_a \in Boxes :
          \E box_b \in Boxes :
              iou_call' = [box_a |-> box_a, box_b |-> box_b, returned |-> iou(box_a, box_b)]
    /\ UNCHANGED <<iou_threshold, max_missed, tracks, next_id, result, call, run,
                   labels, birthcat, gone, created, feed, scen, track_events, audit,
                   others>>

IouNext == IouCall

IouSpec == IouInit /\ [][IouNext]_vars

-----------------------------------------------------------------------------
(* Several MultiObjectTracker instances side by side.  A dictionary is an  *)
(* object of the heap and the tracks field of an instance a reference to   *)
(* it; update changes the dictionary its instance refers to, in place.     *)

\* The single tracker and the direct call of iou, left alone.
trackerVars == <<iou_threshold, max_missed, tracks, next_id, result, call, run,
                 labels, birthcat, gone, created, feed, scen, track_events, iou_call,
                 audit>>

Unused ==
    /\ iou_threshold \in IouThresholds
    /\ max_missed = MaxMissedBound
    /\ scen = Off
    /\ Fresh
    /\ feed = "labelled"
    /\ iou_call = NoIouCall
    /\ audit = FALSE

SameDict(heap) == 1

\* self.tracks = {}, line 87: a dictionary no other reference leads to.
NewDict(heap) == Len(heap) + 1

\* MultiObjectTracker(iou_threshold, max_missed), lines 80-88.
Construct ==
    /\ Len(fleet.trackers) < MaxInstances
    /\ \E threshold \in IouThresholds :
          \E limit \in {1} :
              LET ref == NewDict(fleet.heap)
                  self == [iou_threshold |-> threshold, max_missed |-> limit,
                           tracks |-> ref, next_id |-> 1]
              IN  fleet' = [fleet EXCEPT
                              !.heap = IF ref \in DOMAIN @ THEN [@ EXCEPT ![ref] = <<>>]
                                       ELSE Append(@, <<>>),
                              !.trackers = Append(@, self),
                              !.acted = None]
    /\ UNCHANGED <<trackerVars, coord, alerts, session, replay>>

\* update(detections, frame_id) on instance k.
UpdateOn(k) ==
    /\ \E detections \in SeqsUpTo(Scripted, 1) :
          \E frame_id \in {fleet.frame_id + 1} \cap 0..MaxFrame :
              LET self == fleet.trackers[k]
              IN  \E r \in {update(fleet.heap[self.tracks], self.next_id, self.iou_threshold,
                                    self.max_missed, detections, frame_id)} :
                      /\ r.next_id - 1 <= MaxTracks
                      /\ fleet' = [fleet EXCEPT !.heap[self.tracks] = r.tracks,
                                                !.trackers[k].next_id = r.next_id,
                                                !.acted = k,
                                                !.frame_id = frame_id]
    /\ UNCHANGED <<trackerVars, coord, alerts, session, replay>>

FleetNext == Construct \/ \E k \in 1..Len(fleet.trackers) : UpdateOn(k)

\* Nothing around the single tracker has started.
IdleInit == Unused /\ OthersIdle

FleetSpec == IdleInit /\ [][FleetNext]_vars

\* What instance k of a fleet holds: its track mapping and its next-id counter.
Held(f, k) == [tracks |-> f.heap[f.trackers[k].tracks], next_id |-> f.trackers[k].next_id]

-----------------------------------------------------------------------------
(* ObjectTrackingCoordinator.run of src/src/agents/adk_enhanced/            *)
(* coordinator.py: one coroutine takes the events of the log one by one;   *)
(* process_event creates a task for the event, the task hands the work to  *)
(* a worker thread with asyncio.to_thread, and the thread of a tracking    *)
(* task executes process_detection, that is, one update of the tracker.    *)
(* A step is what runs between two awaits.                                 *)

MaxEvents == 3

EventTypes == {"object_detected", "bus_detected", "heartbeat"}

SummaryIntervals == {1, 2}

\* The variables the coordinator leaves alone.
coordFrame == <<trackerVars, fleet, alerts, session, replay>>

\* ObjectTrackingCoordinator(use_tracker, summary_interval).run(), lines 48-76, 279-286.
CoordStart ==
    /\ coord = NoCoord
    /\ \E log \in SeqsUpTo(EventTypes, MaxEvents) \ {<<>>} :
          \E use_tracker \in BOOLEAN :
              \E summary_interval \in SummaryIntervals :
                  coord' = [pc |-> "next", log |-> log, taken |-> 0,
                            use_tracker |-> use_tracker,
                            summary_interval |-> summary_interval,
                            events_processed |-> 0, tasks |-> <<>>]
    /\ UNCHANGED coordFrame

NotAwaited(c) == c.pc \in {"next", "gather"}

\* await self.process_event(event), line 286: the loop asks for the next event
\* when process_event has returned.
Awaited(c) == c.pc = "next"

\* if events_processed % summary_interval == 0, line 174.
SummaryDue(c, n) == IF n % c.summary_interval = 0 THEN "summary" ELSE "next"

\* The tasks process_event creates for an event, lines 153-167.
Routed(c, event, event_type) ==
    (IF event_type = "bus_detected"
     THEN << [event |-> event, kind |-> "bus", at |-> "created"] >> ELSE <<>>)
    \o
    (IF event_type = "object_detected" /\ c.use_tracker
     THEN << [event |-> event, kind |-> "tracking", at |-> "created"] >> ELSE <<>>)

\* The loop takes an event and process_event runs to its first await, lines 286, 144-170.
TakeEvent ==
    /\ coord.pc # "off"
    /\ Awaited(coord)
    /\ coord.taken < Len(coord.log)
    /\ LET event == coord.taken + 1
           tasks == Routed(coord, event, coord.log[event])
       IN  coord' = [coord EXCEPT
                       !.taken = event,
                       !.events_processed = @ + 1,
                       !.tasks = @ \o tasks,
                       !.pc = IF tasks # <<>> THEN "gather"
                              ELSE SummaryDue(coord, coord.events_processed + 1)]
    /\ UNCHANGED coordFrame

\* _handle_bus_event or _handle_tracking_event up to its await: the worker
\* thread starts bus_agent.process or process_detection, lines 184-187, 203-206.
StartThread(k) ==
    /\ coord.pc # "off"
    /\ k \in DOMAIN coord.tasks
    /\ coord.tasks[k].at = "created"
    /\ coord' = [coord EXCEPT !.tasks[k].at = "in thread"]
    /\ UNCHANGED coordFrame

\* The function of the worker thread returns.
ThreadReturns(k) ==
    /\ coord.pc # "off"
    /\ k \in DOMAIN coord.tasks
    /\ coord.tasks[k].at = "in thread"
    /\ coord' = [coord EXCEPT !.tasks[k].at = "returned"]
    /\ UNCHANGED coordFrame

\* The handler resumes after its await and ends, lines 189-195, 208-214.
TaskEnds(k) ==
    /\ coord.pc # "off"
    /\ k \in DOMAIN coord.tasks
    /\ coord.tasks[k].at = "returned"
    /\ coord' = [coord EXCEPT !.tasks[k].at = "done"]
    /\ UNCHANGED coordFrame

\* await asyncio.gather(*tasks) returns when the tasks of the event are done, lines 169-175.
Gathered ==
    /\ coord.pc = "gather"
    /\ \A k \in DOMAIN coord.tasks :
          coord.tasks[k].event = coord.taken => coord.tasks[k].at = "done"
    /\ coord' = [coord EXCEPT !.pc = SummaryDue(coord, coord.events_processed)]
    /\ UNCHANGED coordFrame

\* await self._generate_summary() returns and process_event with it, line 175.
Summarised ==
    /\ coord.pc = "summary"
    /\ coord' = [coord EXCEPT !.pc = "next"]
    /\ UNCHANGED coordFrame

CoordNext ==
    \/ CoordStart
    \/ TakeEvent
    \/ \E k \in 1..MaxEvents : StartThread(k)
    \/ \E k \in 1..MaxEvents : ThreadReturns(k)
    \/ \E k \in 1..MaxEvents : TaskEnds(k)
    \/ Gathered
    \/ Summarised

CoordSpec == IdleInit /\ [][CoordNext]_vars

\* The tracking tasks whose thread is executing the tracker's update.
UpdatesInFlight ==
    {k \in DOMAIN coord.tasks :
        coord.tasks[k].kind = "tracking" /\ coord.tasks[k].at = "in thread"}

\* The tracking tasks process_event created for an event.
TrackingTasks(event) ==
    {k \in DOMAIN coord.tasks :
        coord.tasks[k].kind = "tracking" /\ coord.tasks[k].event = event}

-----------------------------------------------------------------------------
(* should_send_alert of src/src/agents/adk_enhanced/tools/alert_tools.py   *)
(* as BusNotificationHandler uses it.  Times are whole seconds since the   *)
(* handler was made; a dictionary is a function on the set of its keys.    *)

MaxAlertCalls == 3

DebounceSeconds == 30
RecentAlertsKept == 300
BusTracksKept == 600

\* The debounce windows a handler is made with, and the seconds between two calls.
Windows == {DebounceSeconds, 900}
Pauses == {0, 29, 30, 301, 601}

DebounceKeys == {"bus_alert", "default"}
BusTrackIds == {None, 1}

\* No debounce_window argument, no earlier alert.
NoWindow == -1
Never == -1

\* The variables should_send_alert leaves alone.
alertsFrame == <<trackerVars, fleet, coord, session, replay>>

\* The identity an alert is debounced by.
Identity(debounce_key, track_id) ==
    IF track_id # None THEN <<"track", track_id>> ELSE <<"key", debounce_key>>

\* BusNotificationHandler(debounce_window), bus_agent.py lines 45-58, and
\* set_debounce_window, lines 231-240.
AlertsStart ==
    /\ alerts = NoAlerts
    /\ \E debounce_window \in Windows :
          alerts' = [pc |-> "on", now |-> 0, debounce_seconds |-> debounce_window,
                     recent_alerts |-> <<>>, bus_tracks |-> <<>>,
                     approved |-> <<>>, calls |-> 0,
                     last |-> [identity |-> <<>>, since |-> Never, window |-> NoWindow,
                               returned |-> FALSE]]
    /\ UNCHANGED alertsFrame

\* {k: v for k, v in _recent_alerts.items() if v > cutoff}, lines 125-129.
NewerAlerts(d, cutoff) == [k \in {j \in DOMAIN d : d[j] > cutoff} |-> d[k]]

\* {tid: info for tid, info in _bus_tracks.items() if info['last_seen'] > cutoff_tracks},
\* lines 132-136.
NewerTracks(d, cutoff) == [k \in {j \in DOMAIN d : d[j].last_seen > cutoff} |-> d[k]]

\* should_send_alert(event, debounce_key, track_id, debounce_window) at time now:
\* what it returns and the two dictionaries after it, lines 57-138.
should_send_alert(a, debounce_key, track_id, debounce_window, now) ==
    LET window == IF debounce_window # NoWindow THEN debounce_window ELSE a.debounce_seconds
    IN  IF track_id # None
        THEN IF track_id \in DOMAIN a.bus_tracks
             THEN IF now - a.bus_tracks[track_id].last_seen < window
                  THEN [returned |-> FALSE, recent_alerts |-> a.recent_alerts,
                        bus_tracks |-> a.bus_tracks]
                  ELSE [returned |-> TRUE, recent_alerts |-> a.recent_alerts,
                        bus_tracks |->
                            [a.bus_tracks EXCEPT ![track_id].last_seen = now,
                                                 ![track_id].alerts_sent = @ + 1]]
             ELSE [returned |-> TRUE, recent_alerts |-> a.recent_alerts,
                   bus_tracks |->
                       [k \in DOMAIN a.bus_tracks \cup {track_id} |->
                           IF k = track_id
                           THEN [last_seen |-> now, alerts_sent |-> 1, first_seen |-> now]
                           ELSE a.bus_tracks[k]]]
        ELSE IF debounce_key \in DOMAIN a.recent_alerts
                /\ now - a.recent_alerts[debounce_key] < window
             THEN [returned |-> FALSE, recent_alerts |-> a.recent_alerts,
                   bus_tracks |-> a.bus_tracks]
             ELSE LET recent == [k \in DOMAIN a.recent_alerts \cup {debounce_key} |->
                                    IF k = debounce_key THEN now ELSE a.recent_alerts[k]]
                  IN  [returned |-> TRUE,
                       recent_alerts |-> NewerAlerts(recent, now - RecentAlertsKept),
                       bus_tracks |-> NewerTracks(a.bus_tracks, now - BusTracksKept)]

\* One call of should_send_alert, some seconds after the call before it.
ShouldSendAlert ==
    /\ alerts.pc = "on"
    /\ alerts.calls < MaxAlertCalls
    /\ \E debounce_key \in DebounceKeys :
        \E track_id \in BusTrackIds :
         \E debounce_window \in {NoWindow, alerts.debounce_seconds} :
          \E pause \in Pauses :
              LET now == alerts.now + pause
                  identity == Identity(debounce_key, track_id)
                  r == should_send_alert(alerts, debounce_key, track_id, debounce_window, now)
              IN  alerts' = [alerts EXCEPT
                               !.now = now,
                               !.recent_alerts = r.recent_alerts,
                               !.bus_tracks = r.bus_tracks,
                               !.calls = @ + 1,
                               !.approved =
                                   IF r.returned
                                   THEN [i \in DOMAIN @ \cup {identity} |->
                                            IF i = identity THEN now ELSE @[i]]
                                   ELSE @,
                               !.last = [identity |-> identity,
                                         since |-> IF identity \in DOMAIN alerts.approved
                                                   THEN now - alerts.approved[identity]
                                                   ELSE Never,
                                         window |-> alerts.debounce_seconds,
                                         returned |-> r.returned]]
    /\ UNCHANGED alertsFrame

AlertsNext == AlertsStart \/ ShouldSendAlert

AlertsSpec == IdleInit /\ [][AlertsNext]_vars

-----------------------------------------------------------------------------
(* The live paths: ObjectTrackingHandler of src/src/agents/adk_enhanced/   *)
(* agents/tracking_agent.py over the tracker of tools/tracking_tools.py,   *)
(* and run_event_loop of src/src/agents/adk_app.py over a tracker of its   *)
(* own.  A tracker is the record of its fields; no tracker is <<>>.        *)

MaxHandlers == 2
MaxLiveEvents == 3

DefaultIouThreshold == <<3, 10>>

NoTracker == <<>>

\* MultiObjectTracker() with the default arguments, tracker.py lines 80-88.
NewTracker ==
    [iou_threshold |-> DefaultIouThreshold, max_missed |-> DefaultMaxMissed,
     tracks |-> <<>>, next_id |-> 1]

\* The details of an event: a detection and, unless left out, its frame_id.
Framed(det, frame_id) ==
    [k \in DOMAIN det \cup {"frame_id"} |-> IF k = "frame_id" THEN frame_id ELSE det[k]]

LiveDetails ==
    {Framed(det, frame_id) : det \in {Car(BoxA, 90), Car(BoxFar, 88)}, frame_id \in 0..1}
    \cup {Car(BoxA, 90)}

LoopEventTypes == {"object_detected", "bus_detected"}

\* The variables the live paths leave alone.
sessionFrame == <<trackerVars, fleet, coord, alerts, replay>>

NoUpdate == [path |-> -1]

\* The module tracking_tools is loaded, line 19: _tracker = None.
SessionStart ==
    /\ session = NoSession
    /\ session' = [pc |-> "on", tracker |-> NoTracker, handlers |-> <<>>,
                   loop |-> [running |-> FALSE, tracker |-> NoTracker, buffer |-> 0],
                   acted |-> None, events |-> 0, detected |-> 0, updates |-> 0,
                   last |-> NoUpdate, prev |-> NoUpdate]
    /\ UNCHANGED sessionFrame

\* ObjectTrackingHandler(), tracking_agent.py lines 33-34.
NewHandler ==
    /\ session.pc = "on"
    /\ Len(session.handlers) < MaxHandlers
    /\ session' = [session EXCEPT !.handlers = Append(@, [initialized |-> FALSE]),
                                  !.acted = None]
    /\ UNCHANGED sessionFrame

NoBatch(details) == <<>>

\* detections = [details], tracking_agent.py line 58 and adk_app.py line 157.
LiveBatch(details) == <<details>>

\* details.get("frame_id", 0), tracking_agent.py line 55 and adk_app.py line 157.
EventFrame(details) == DetGet(details, "frame_id", 0)

\* tracker.update(LiveBatch(details), EventFrame(details)) on a tracker record,
\* tracking_tools.py line 67 and adk_app.py line 157.
live_update(tracker, details) ==
    update(tracker.tracks, tracker.next_id, tracker.iou_threshold, tracker.max_missed,
           LiveBatch(details), EventFrame(details))

\* The record of an update call r on a live path: the handler it came through
\* or None for the loop.
LastUpdate(tracker, path, details, r) ==
    [path |-> path, details |-> details, detections |-> LiveBatch(details),
     frame_id |-> EventFrame(details), before |-> tracker.tracks, after |-> r.tracks,
     match_ids |-> r.match_ids, max_missed |-> tracker.max_missed]

\* initialize_tracker() when the handler has not called it yet, tracking_agent.py
\* lines 36-41 and tracking_tools.py lines 22-45: the module's tracker is replaced.
ensure_initialized(s, h) ==
    IF ~s.handlers[h].initialized THEN NewTracker ELSE s.tracker

\* update_tracker: if _tracker is None: initialize_tracker(), tracking_tools.py lines 61-65.
update_tracker_target(tracker) == IF tracker = NoTracker THEN NewTracker ELSE tracker

\* The tracker an object_detected event reaches: through handler h, after
\* ensure_initialized and the test of update_tracker, or, with no handler,
\* the tracker of run_event_loop.
LiveTarget(s, h) ==
    IF h # None THEN update_tracker_target(ensure_initialized(s, h)) ELSE s.loop.tracker

\* An object_detected event reaches a tracker: handler h .process_detection(event),
\* tracking_agent.py lines 43-71, or, with no handler, a turn of the loop of
\* run_event_loop with a tracker, adk_app.py lines 152-168.
ObjectDetected(h) ==
    /\ session.pc = "on"
    /\ IF h # None THEN h \in 1..Len(session.handlers)
       ELSE session.loop.running /\ session.loop.tracker # NoTracker
    /\ session.events < MaxLiveEvents
    /\ \E details \in LiveDetails :
          \E tracker \in {LiveTarget(session, h)} :
              \E r \in {live_update(tracker, details)} :
                  LET after == [tracker EXCEPT !.tracks = r.tracks, !.next_id = r.next_id]
                      counted == [session EXCEPT
                                     !.acted = h,
                                     !.events = @ + 1,
                                     !.detected = @ + 1,
                                     !.updates = @ + 1,
                                     !.prev = session.last,
                                     !.last = LastUpdate(tracker, h, details, r)]
                  IN  /\ r.next_id - 1 <= MaxTracks
                      /\ session' = IF h # None
                                    THEN [counted EXCEPT !.tracker = after,
                                                         !.handlers[h].initialized = TRUE]
                                    ELSE [counted EXCEPT !.loop.tracker = after,
                                                         !.loop.buffer = @ + 1]
    /\ UNCHANGED sessionFrame

\* run_event_loop(use_tracker), adk_app.py lines 146-150.
LoopStart ==
    /\ session.pc = "on"
    /\ ~session.loop.running
    /\ \E use_tracker \in BOOLEAN :
          session' = [session EXCEPT
                        !.loop = [running |-> TRUE,
                                  tracker |-> IF use_tracker THEN NewTracker ELSE NoTracker,
                                  buffer |-> 0],
                        !.acted = None]
    /\ UNCHANGED sessionFrame

\* A turn of the loop of run_event_loop that reaches no tracker: the event is
\* no detection or the loop has no tracker, adk_app.py lines 152-168.
LoopEvent ==
    /\ session.pc = "on"
    /\ session.loop.running
    /\ session.events < MaxLiveEvents
    /\ \E event_type \in LoopEventTypes :
          /\ ~(session.loop.tracker # NoTracker /\ event_type = "object_detected")
          /\ session' = [session EXCEPT !.loop.buffer = @ + 1,
                                        !.acted = None,
                                        !.events = @ + 1]
    /\ UNCHANGED sessionFrame

LiveNext ==
    \/ SessionStart
    \/ NewHandler
    \/ \E h \in 0..MaxHandlers : ObjectDetected(h)
    \/ LoopStart
    \/ LoopEvent

LiveSpec == IdleInit /\ [][LiveNext]_vars

\* What handler h of a session shows of the tracker: get_statistics and
\* get_category_tracks, tracking_agent.py lines 99-123, tracking_tools.py lines 70-155.
Observed(s, h) ==
    IF ~s.handlers[h].initialized \/ s.tracker = NoTracker
    THEN [initialized |-> FALSE]
    ELSE [initialized |-> TRUE, tracks |-> s.tracker.tracks,
          next_track_id |-> s.tracker.next_id]

\* The track the detection of the last update call on a live path matched, or None.
LiveMatched == session.last.match_ids[1]

-----------------------------------------------------------------------------
(* replay_tracking of src/src/tracking/offline_pipeline.py over a log whose *)
(* lines come in any order: load_detection_events keeps the detections,    *)
(* group_detections_by_frame groups them by frame and sorts the groups,    *)
(* and the loop calls update once per group.  The ts of a line is its      *)
(* place in the log.                                                       *)

MaxLines == 3

LogFrames == 0..2

\* The lines a detector or another writer leaves in the log.
LogLines ==
    {[event_type |-> "object_detected", details |-> Framed(det, frame_id)] :
        det \in Logged, frame_id \in LogFrames}
    \cup {[event_type |-> "object_detected", details |-> Car(BoxA, 90)],
          [event_type |-> "bus_detected", details |-> Framed(Car(BoxA, 90), 1)]}

\* The variables replay_tracking leaves alone.
replayFrame == <<trackerVars, fleet, coord, alerts, session>>

\* read_all_events: the events of the lines, each with its ts.
Events(log) ==
    [i \in 1..Len(log) |->
        [ts |-> i, event_type |-> log[i].event_type, details |-> log[i].details]]

\* load_detection_events, lines 24-28.
load_detection_events(log) ==
    SelectSeq(Events(log), LAMBDA e : e.event_type = "object_detected")

\* details = dict(e.details); details["ts"] = e.ts, lines 34-35.
Stamped(e) ==
    [k \in DOMAIN e.details \cup {"ts"} |-> IF k = "ts" THEN e.ts ELSE e.details[k]]

\* grouped[frame_id].append(details), lines 32-37: the items of the
\* dictionary, in the order their keys were first seen.
RECURSIVE Grouped(_, _, _)
Grouped(events, i, grouped) ==
    IF i > Len(events) THEN grouped
    ELSE LET details == Stamped(events[i])
             frame_id == DetGet(details, "frame_id", 0)
             at == {k \in 1..Len(grouped) : grouped[k][1] = frame_id}
         IN  Grouped(events, i + 1,
                     IF at = {}
                     THEN Append(grouped, <<frame_id, <<details>> >>)
                     ELSE [k \in 1..Len(grouped) |->
                              IF k \in at
                              THEN <<frame_id, Append(grouped[k][2], details)>>
                              ELSE grouped[k]])

\* A stable sort of items by their keys.
RECURSIVE SortedByKey(_)
SortedByKey(items) ==
    IF items = <<>> THEN <<>>
    ELSE LET least == CHOOSE k \in 1..Len(items) :
                          \A j \in 1..Len(items) :
                              \/ items[k][1] < items[j][1]
                              \/ (items[k][1] = items[j][1] /\ k <= j)
         IN  <<items[least]>>
             \o SortedByKey([k \in 1..(Len(items) - 1) |->
                                IF k < least THEN items[k] ELSE items[k + 1]])

Unsorted(items) == items

\* sorted(grouped.items(), key=lambda kv: kv[0]), line 38.
sorted_items(items) == SortedByKey(items)

\* group_detections_by_frame, lines 31-38.
group_detections_by_frame(events) == sorted_items(Grouped(events, 1, <<>>))

\* replay_tracking(log_path) up to its loop, lines 51-57.
LoadLog ==
    /\ replay = NoReplay
    /\ \E log \in SeqsUpTo(LogLines, MaxLines) :
          replay' = [pc |-> "loop", log |-> log,
                     groups |-> group_detections_by_frame(load_detection_events(log)),
                     pos |-> 0, tracker |-> NewTracker,
                     calls |-> <<>>, track_events |-> <<>>]
    /\ UNCHANGED replayFrame

\* One turn of the loop, lines 57-70.
ReplayTurn ==
    /\ replay.pc = "loop"
    /\ replay.pos < Len(replay.groups)
    /\ LET frame_id == replay.groups[replay.pos + 1][1]
           detections == replay.groups[replay.pos + 1][2]
       IN  \E r \in {update(replay.tracker.tracks, replay.tracker.next_id,
                            replay.tracker.iou_threshold, replay.tracker.max_missed,
                            detections, frame_id)} :
               replay' = [replay EXCEPT
                            !.pos = @ + 1,
                            !.tracker.tracks = r.tracks,
                            !.tracker.next_id = r.next_id,
                            !.calls = Append(@, [frame_id |-> frame_id,
                                                 detections |-> detections]),
                            !.track_events =
                                @ \o [k \in 1..Len(r.returned) |-> TrackUpdate(r.returned[k])]]
    /\ UNCHANGED replayFrame

\* The loop is over and replay_tracking returns, lines 72-87.
ReplayReturn ==
    /\ replay.pc = "loop"
    /\ replay.pos = Len(replay.groups)
    /\ replay' = [replay EXCEPT !.pc = "done"]
    /\ UNCHANGED replayFrame

LogReplayNext == LoadLog \/ ReplayTurn \/ ReplayReturn

LogReplaySpec == IdleInit /\ [][LogReplayNext]_vars

\* The frame of a line of the log.
LineFrame(line) == DetGet(line.details, "frame_id", 0)

\* The places of the log that hold a detection of a frame, and of any frame.
FrameLines(frame_id) ==
    {i \in 1..Len(replay.log) :
        /\ replay.log[i].event_type = "object_detected"
        /\ LineFrame(replay.log[i]) = frame_id}

DetectionLines ==
    {i \in 1..Len(replay.log) : replay.log[i].event_type = "object_detected"}

-----------------------------------------------------------------------------
(* What the claims speak of *)

LiveIds == Range(Keys(tracks))

ResultIds == {result[k].track_id : k \in 1..Len(result)}

Indices == 1..Len(call.detections)

Births == {i \in Indices : call.born[i] # None}

Matches == {i \in Indices : call.match_ids[i] # None}

CallAttached(i) ==
    IF call.match_ids[i] # None THEN call.match_ids[i] ELSE call.born[i]

Label(i) == DetGet(call.detections[i], "category", Absent)

HasBox(det) == "bbox" \in DOMAIN det /\ Len(det.bbox) = 4

\* The overlap of detection i of the call with track t as the call found it.
Overlap(i, t) == iou(call.detections[i].bbox, DictGet(call.before, t).bbox)

\* The still-unmatched live tracks of the category of detection i.
Rivals(i) ==
    {t \in Range(call.candidates[i]) : DictGet(call.before, t).category = Label(i)}

Labelled_Boxed(i) == HasBox(call.detections[i]) /\ Truthy(Label(i))

-----------------------------------------------------------------------------
(* C1: a track spawned by an unmatched detection of update(detections,     *)
(* frame_id) is in the list that call returns, with misses = 0,            *)
(* start_frame = last_frame = frame_id and the detection's category, bbox  *)
(* and score.                                                              *)
C1_NewTrackReturnedFresh ==
    \A i \in Births :
        \E k \in 1..Len(result) :
            /\ result[k].track_id = call.born[i]
            /\ result[k].misses = 0
            /\ result[k].start_frame = call.frame_id
            /\ result[k].last_frame = call.frame_id
            /\ result[k].category = call.detections[i].category
            /\ result[k].bbox = call.detections[i].bbox
            /\ result[k].score = call.detections[i].score

(* C2: the ids handed out over a tracker's life are 1, 2, 3, ... in the    *)
(* order of creation, which within one call is the order of the            *)
(* detections, and no live track carries the id of a removed one.          *)
C2_IdsIncreasingNeverReused ==
    /\ \A i \in 1..Len(created) : created[i] = i
    /\ next_id = Len(created) + 1
    /\ \A i, j \in Births : i < j => call.born[i] < call.born[j]
    /\ \A k, l \in 1..Len(tracks) : k # l => tracks[k].track_id # tracks[l].track_id
    /\ gone \cap LiveIds = {}

\* This call creates a track after a track of an earlier call was removed.
C2_Witness ==
    \E g \in gone :
        /\ g \notin Range(call.born)
        /\ \E i \in Births : g < call.born[i] /\ call.born[i] \in LiveIds

(* C3: a track is in the list every update call returns up to and          *)
(* including the call at which it has gone exactly max_missed calls        *)
(* without a match since its creation or its last match; so it is in the   *)
(* result of the call that created it.                                     *)
C3_PresentThroughMaxMissed ==
    /\ \A i \in Births : call.born[i] \in ResultIds
    /\ \A i \in 1..Len(call.to_remove) : call.removed_run[i] > max_missed

(* C4: a track that has gone max_missed + 1 update calls without a match   *)
(* since its creation or its last match is in no result from that call on. *)
C4_AbsentAfterMaxMissedPlusOne ==
    \A t \in ResultIds :
        /\ t \notin gone
        /\ t \in DOMAIN run
        /\ run[t] <= max_missed

\* A track was removed by the call of its (max_missed + 1)-th miss.
C4_Witness ==
    \E i \in 1..Len(call.to_remove) :
        /\ call.removed_run[i] = max_missed + 1
        /\ call.to_remove[i] \notin ResultIds

(* C5: after every update call the live tracks are those with              *)
(* misses <= max_missed: a live track has misses <= max_missed, and a      *)
(* track is removed by the call that takes its misses to max_missed + 1,   *)
(* never before.                                                           *)
C5_LiveIffWithinMaxMissed ==
    /\ \A k \in 1..Len(tracks) : tracks[k].misses <= max_missed
    /\ \A i \in 1..Len(call.to_remove) : call.removed_misses[i] = max_missed + 1
    /\ Range(call.to_remove) \cap LiveIds = {}

\* A call removed one track and kept another that is at the limit.
C5_Witness ==
    /\ call.to_remove # <<>>
    /\ max_missed > 0
    /\ \E k \in 1..Len(tracks) : tracks[k].misses = max_missed

(* C6: with iou_threshold = 0.2 and max_missed = 2, a car at [0,0,2,2] in  *)
(* frame 0 gives one track, id 1; a car at [0.1,0,2.1,2] in frame 1 gives  *)
(* still one track, id 1, last_frame 1; update([], 2) leaves it present    *)
(* with misses = 1; update([], 3) returns the empty list.                  *)
ScenarioTrack == Len(result) = 1 /\ result[1].track_id = 1

C6_ScenarioEndsAtFrame3 ==
    /\ scen = 1 => ScenarioTrack
    /\ scen = 2 => ScenarioTrack /\ result[1].last_frame = 1
    /\ scen = 3 => ScenarioTrack /\ result[1].misses = 1
    /\ scen = 4 => result = <<>>

(* C6, amended: as above through frame 2; update([], 3) leaves the track   *)
(* present with misses = 2, and update([], 4) returns the empty list.      *)
C6_ScenarioEndsAtFrame4 ==
    /\ scen = 1 => ScenarioTrack
    /\ scen = 2 => ScenarioTrack /\ result[1].last_frame = 1
    /\ scen = 3 => ScenarioTrack /\ result[1].misses = 1
    /\ scen = 4 => ScenarioTrack /\ result[1].misses = 2
    /\ scen = 5 => result = <<>>

\* The scenario has run to its last call.
C6_Witness == scen = Len(Scenario) /\ call.frame_id = 4 /\ created = <<1>>

(* C7: a detection without a bounding box, or with a short one, is matched *)
(* to no track, spawns no track and takes no track_id.                     *)
C7_BoxlessTreatedAsAbsent ==
    \A i \in Indices :
        ~HasBox(call.detections[i]) => call.match_ids[i] = None /\ call.born[i] = None

(* C8: within one update call each track is matched by at most one         *)
(* detection, and a track matched by a detection is not among the          *)
(* candidates of any later detection of the call.                          *)
C8_OneToOne ==
    \A i, j \in Indices :
        (i < j /\ call.match_ids[i] # None) =>
            /\ call.match_ids[j] # call.match_ids[i]
            /\ call.match_ids[i] \notin Range(call.candidates[j])

\* A detection was matched, and a later detection of the call, equal to it,
\* found the track taken.
C8_Witness ==
    \E i, j \in Indices :
        /\ i < j
        /\ call.match_ids[i] # None
        /\ call.detections[j] = call.detections[i]
        /\ call.match_ids[i] \in Range(call.candidates[i])

(* C9: a track's category is that of the detection that created it and of  *)
(* every detection matched to it, whether or not the detection carries a   *)
(* category ("unknown" standing for a missing one), and never changes.     *)
CategoryKept == \A k \in 1..Len(tracks) : tracks[k].category = birthcat[tracks[k].track_id]

C9_CategoryOfEveryDetection ==
    /\ \A i \in Indices :
          call.attached_category[i] = NewTrackCategory(call.detections[i])
    /\ CategoryKept

(* C9, amended: a track's category is that of the detection that created   *)
(* it ("unknown" for a missing one) and of every detection with a non-empty *)
(* category matched to it, and never changes.                              *)
C9_CategoryOfLabelledDetections ==
    /\ \A i \in Births : call.attached_category[i] = NewTrackCategory(call.detections[i])
    /\ \A i \in Matches : Truthy(Label(i)) => call.attached_category[i] = Label(i)
    /\ CategoryKept

\* A labelled detection was matched while a track of another category was
\* among its candidates.
C9_Witness ==
    \E i \in Matches :
        /\ Truthy(Label(i))
        /\ \E k \in 1..Len(tracks) :
              /\ tracks[k].track_id \in Range(call.candidates[i])
              /\ tracks[k].category # Label(i)

(* C10: two detections with different categories are never matched to the  *)
(* same track, and in one call they are attached to different tracks.      *)
C10_DifferentCategoriesDifferentTracks ==
    /\ \A t \in DOMAIN labels : Cardinality(labels[t]) <= 1
    /\ \A i, j \in Indices :
          (Truthy(Label(i)) /\ Truthy(Label(j)) /\ Label(i) # Label(j)) =>
              CallAttached(i) # CallAttached(j)

\* Two detections of different categories with the same box, none matched,
\* gave two tracks.
C10_Witness ==
    \E i, j \in Births :
        /\ Label(i) # Label(j)
        /\ call.detections[i].bbox = call.detections[j].bbox
        /\ call.born[i] # call.born[j]
        /\ {call.born[i], call.born[j]} \subseteq ResultIds

(* C11: a detection is matched to a track only if the track has the        *)
(* greatest overlap among the still-unmatched live tracks of the           *)
(* detection's category and that overlap exceeds iou_threshold; when no    *)
(* such track's overlap exceeds iou_threshold the detection is matched to  *)
(* nothing and spawns a track.                                             *)
C11_MatchedOnlyAboveThreshold ==
    \A i \in Indices :
        Labelled_Boxed(i) =>
            /\ call.match_ids[i] # None =>
                  /\ call.match_ids[i] \in Rivals(i)
                  /\ \A t \in Rivals(i) : RatGE(Overlap(i, call.match_ids[i]), Overlap(i, t))
                  /\ RatGT(Overlap(i, call.match_ids[i]), iou_threshold)
            /\ (\A t \in Rivals(i) : ~RatGT(Overlap(i, t), iou_threshold)) =>
                  call.match_ids[i] = None /\ call.born[i] # None

(* C11, amended: a detection is matched to a track only if the track has   *)
(* the greatest overlap among the still-unmatched live tracks of the       *)
(* detection's category and that overlap is at least iou_threshold; when   *)
(* no such track's overlap reaches iou_threshold the detection is matched  *)
(* to nothing and spawns a track.                                          *)
C11_MatchedOnlyAtOrAboveThreshold ==
    \A i \in Indices :
        Labelled_Boxed(i) =>
            /\ call.match_ids[i] # None =>
                  /\ call.match_ids[i] \in Rivals(i)
                  /\ \A t \in Rivals(i) : RatGE(Overlap(i, call.match_ids[i]), Overlap(i, t))
                  /\ RatGE(Overlap(i, call.match_ids[i]), iou_threshold)
            /\ (\A t \in Rivals(i) : ~RatGE(Overlap(i, t), iou_threshold)) =>
                  call.match_ids[i] = None /\ call.born[i] # None

\* A detection was matched to the track of greater overlap although a track
\* of its category with a smaller, positive overlap came first.
C11_Witness ==
    \E i \in Matches :
        \E t \in Rivals(i) :
            /\ t < call.match_ids[i]
            /\ RatGT(Overlap(i, t), Zero)
            /\ RatGT(Overlap(i, call.match_ids[i]), Overlap(i, t))

(* C12: when the only detection of a category in a call overlaps the only  *)
(* live track of that category with IoU >= iou_threshold, it is matched to *)
(* that track: the track is reported again with last_frame = frame_id and  *)
(* no track is created for the detection, whatever iou_threshold is, 0     *)
(* included.                                                               *)
C12_StableIdAtOrAboveThreshold ==
    \A i \in Indices :
        \A k \in 1..Len(call.before) :
            ( /\ Labelled_Boxed(i)
              /\ \A j \in Indices : j # i => Label(j) # Label(i)
              /\ call.before[k].category = Label(i)
              /\ \A l \in 1..Len(call.before) :
                    l # k => call.before[l].category # Label(i)
              /\ RatGE(iou(call.detections[i].bbox, call.before[k].bbox), iou_threshold) )
            => /\ call.match_ids[i] = call.before[k].track_id
               /\ call.born[i] = None
               /\ \E m \in 1..Len(result) :
                     /\ result[m].track_id = call.before[k].track_id
                     /\ result[m].last_frame = call.frame_id

(* C13: when a detection is matched to a track by update(detections,      *)
(* frame_id), the track's bbox and score become the detection's,           *)
(* last_frame becomes frame_id and misses becomes 0, also for a track that *)
(* had misses; track_id, category and start_frame stay as they were.       *)
C13_MatchedTrackRefreshed ==
    \A i \in Matches :
        LET det == call.detections[i]
            old == DictGet(call.before, call.match_ids[i])
        IN  /\ call.match_ids[i] \in LiveIds
            /\ LET new == DictGet(tracks, call.match_ids[i])
               IN  /\ "bbox" \in DOMAIN det /\ new.bbox = det.bbox
                   /\ "score" \in DOMAIN det => new.score = det.score
                   /\ new.last_frame = call.frame_id
                   /\ new.misses = 0
                   /\ new.track_id = old.track_id
                   /\ new.category = old.category
                   /\ new.start_frame = old.start_frame

\* A track that had misses was matched by a detection with another box and
\* another score.
C13_Witness ==
    \E i \in Matches :
        LET det == call.detections[i]
            old == DictGet(call.before, call.match_ids[i])
        IN  /\ old.misses > 0
            /\ old.bbox # det.bbox
            /\ old.score # det.score
            /\ old.last_frame < call.frame_id
            /\ \E k \in 1..Len(result) :
                  result[k].track_id = old.track_id /\ result[k].misses = 0

(* C14: a track_id that update has removed is in no later result, and a    *)
(* track created after the removal, such as one for an object that comes   *)
(* back at the same place, has a larger track_id.                          *)
C14_RemovedNeverResurrected ==
    /\ gone \cap ResultIds = {}
    /\ gone \cap LiveIds = {}
    /\ \A g \in gone : \A i \in Births : call.born[i] >= g
    /\ \A g \in gone \ Range(call.born) : \A i \in Births : call.born[i] > g

\* A car is reported again at the place where an earlier call removed the
\* track of a car: an earlier result held the removed id, this one holds a
\* larger id.
C14_Witness ==
    \E g \in gone :
        /\ g \notin Range(Keys(call.before))
        /\ g \notin Range(call.born)
        /\ \E i \in Births :
              /\ Label(i) = "car"
              /\ call.born[i] > g
              /\ call.born[i] \in ResultIds

(* C15: in every update call each track that is not matched in the call   *)
(* has misses increased by exactly 1 and, unless it is pruned, keeps its   *)
(* track_id, category, bbox, score, start_frame and last_frame;            *)
(* update([], f) changes nothing but misses and the pruned tracks, and     *)
(* leaves the next-id counter as it was.                                   *)
C15_UnmatchedOnlyAged ==
    /\ \A k \in 1..Len(call.before) :
          LET old == call.before[k]
          IN  old.track_id \notin Range(call.match_ids) =>
                  IF old.track_id \in LiveIds
                  THEN DictGet(tracks, old.track_id) = [old EXCEPT !.misses = @ + 1]
                  ELSE \E j \in 1..Len(call.to_remove) :
                          /\ call.to_remove[j] = old.track_id
                          /\ call.removed_misses[j] = old.misses + 1
    /\ \A i \in Births :
          call.born[i] \in LiveIds => DictGet(tracks, call.born[i]).misses = 1
    /\ call.detections = <<>> =>
          /\ next_id = call.before_next_id
          /\ Keys(tracks) = SelectSeq(Keys(call.before),
                                      LAMBDA t : t \notin Range(call.to_remove))

\* update([], f) on two tracks pruned one and aged the other.
C15_Witness ==
    /\ call.detections = <<>>
    /\ call.frame_id >= 0
    /\ call.to_remove # <<>>
    /\ \E k \in 1..Len(call.before) :
          /\ call.before[k].track_id \in LiveIds
          /\ DictGet(tracks, call.before[k].track_id).misses = call.before[k].misses + 1

(* C16: update returns exactly one snapshot per track that is live after   *)
(* pruning and none for a removed track; a snapshot carries the track's    *)
(* track_id, category, bbox, score, start_frame, last_frame and misses,    *)
(* and age = last_frame - start_frame + 1, which is at least 1.            *)
C16_OneSnapshotPerLiveTrack ==
    /\ Len(result) = Len(tracks)
    /\ \A k \in 1..Len(result) :
          /\ DOMAIN result[k] = {"track_id", "category", "bbox", "score",
                                 "start_frame", "last_frame", "misses", "age"}
          /\ \A f \in DOMAIN tracks[k] : result[k][f] = tracks[k][f]
          /\ result[k].age = result[k].last_frame - result[k].start_frame + 1
          /\ result[k].age >= 1
    /\ \A k, l \in 1..Len(result) : k # l => result[k].track_id # result[l].track_id
    /\ ResultIds = LiveIds
    /\ ResultIds \cap (gone \cup Range(call.to_remove)) = {}

\* A call pruned one track and returned another that spans two frames.
C16_Witness ==
    /\ call.to_remove # <<>>
    /\ \E k \in 1..Len(result) :
          /\ result[k].age = 2
          /\ result[k].last_frame = call.frame_id

(* C17: after an update call of a tracker with the default configuration,  *)
(* every detection of the batch that has a category and a bounding box is  *)
(* in the returned list as a live track with its category and its box; so  *)
(* the replay of a log emits a track_update of category bus for a frame    *)
(* that holds a bus detection.                                             *)
C17_DetectionsRepresented ==
    /\ \A i \in Indices :
          Labelled_Boxed(i) =>
              \E k \in 1..Len(result) :
                  /\ result[k].track_id = CallAttached(i)
                  /\ result[k].category = call.detections[i].category
                  /\ result[k].bbox = call.detections[i].bbox
    /\ \A k \in 1..Len(result) : TrackUpdate(result[k]) \in Range(track_events)
    /\ (\E i \in Indices : Labelled_Boxed(i) /\ Label(i) = "bus") =>
          \E n \in 1..Len(track_events) :
              /\ track_events[n].event_type = "track_update"
              /\ track_events[n].details.category = "bus"
              /\ track_events[n].details.last_frame = call.frame_id

\* A frame of the log held a bus and a car at the same place, after a frame
\* with the car only; the replay has emitted updates of both categories.
C17_Witness ==
    /\ max_missed = DefaultMaxMissed
    /\ \E i \in Births : Label(i) = "bus"
    /\ \E i \in Matches : Label(i) = "car"
    /\ \E n \in 1..Len(track_events) : track_events[n].details.category = "bus"
    /\ \E n \in 1..Len(track_events) : track_events[n].details.category = "car"

\* iou has been called on two lists of four coordinates.
IouReturned ==
    /\ iou_call # NoIouCall
    /\ iou_call.box_a \in WellFormed
    /\ iou_call.box_b \in WellFormed

\* The unit cells a box covers: none when its width or height is not positive.
Cells(box) == {<<x, y>> : x \in box[1]..(box[3] - 1), y \in box[2]..(box[4] - 1)}

NonDegenerate(box) == box[3] > box[1] /\ box[4] > box[2]

\* Disjoint, or touching at an edge or a corner.
Apart(box_a, box_b) ==
    \/ box_a[3] <= box_b[1]
    \/ box_b[3] <= box_a[1]
    \/ box_a[4] <= box_b[2]
    \/ box_b[4] <= box_a[2]

(* C18: iou is symmetric: iou(A, B) = iou(B, A) for all boxes A and B with *)
(* integer coordinates, degenerate ones included.                          *)
C18_IouSymmetric ==
    IouReturned => iou_call.returned = iou(iou_call.box_b, iou_call.box_a)

\* iou was called on two overlapping boxes of different areas.
C18_Witness ==
    /\ IouReturned
    /\ Cardinality(Cells(iou_call.box_a)) < Cardinality(Cells(iou_call.box_b))
    /\ iou_call.returned[1] > 0
    /\ iou_call.returned[1] < iou_call.returned[2]

(* C19: for boxes with positive union area, iou(A, B) is the area of the   *)
(* intersection over area(A) + area(B) - area of the intersection, widths  *)
(* and heights clamped at 0, so it lies in [0, 1]; iou(A, A) = 1 for a     *)
(* non-degenerate A and iou([0,0,2,2], [1,1,3,3]) = 1/7.                   *)
C19_IouIsIntersectionOverUnion ==
    IouReturned =>
        LET A == Cells(iou_call.box_a)
            B == Cells(iou_call.box_b)
            inter == Cardinality(A \cap B)
            union == Cardinality(A) + Cardinality(B) - inter
        IN  union > 0 =>
                /\ iou_call.returned[2] > 0
                /\ iou_call.returned[1] * union = inter * iou_call.returned[2]
                /\ 0 <= iou_call.returned[1]
                /\ iou_call.returned[1] <= iou_call.returned[2]
                /\ (iou_call.box_a = iou_call.box_b /\ NonDegenerate(iou_call.box_a)) =>
                      iou_call.returned[1] = iou_call.returned[2]
                /\ (iou_call.box_a = <<0, 0, 2, 2>> /\ iou_call.box_b = <<1, 1, 3, 3>>) =>
                      iou_call.returned[1] * 7 = iou_call.returned[2]

\* The call of test_iou_basic returned 1/7.
C19_Witness ==
    /\ iou_call.box_a = <<0, 0, 2, 2>>
    /\ iou_call.box_b = <<1, 1, 3, 3>>
    /\ iou_call.returned = <<1, 7>>

(* C20: iou returns 0 when either argument does not have exactly 4         *)
(* components, when either box has zero or negative width or height, and   *)
(* when the boxes are disjoint or only touch at an edge or a corner.       *)
C20_IouZeroCases ==
    iou_call # NoIouCall =>
        LET a == iou_call.box_a
            b == iou_call.box_b
        IN  /\ (Len(a) # 4 \/ Len(b) # 4) => iou_call.returned = Zero
            /\ ( /\ Len(a) = 4
                 /\ Len(b) = 4
                 /\ (~NonDegenerate(a) \/ ~NonDegenerate(b) \/ Apart(a, b)) )
               => iou_call.returned[1] = 0 /\ iou_call.returned[2] > 0

\* iou returned 0 for two non-degenerate boxes that share an edge.
C20_Witness ==
    /\ IouReturned
    /\ NonDegenerate(iou_call.box_a)
    /\ NonDegenerate(iou_call.box_b)
    /\ iou_call.box_a[3] = iou_call.box_b[1]
    /\ iou_call.box_a[2] = iou_call.box_b[2]
    /\ iou_call.box_a[4] = iou_call.box_b[4]
    /\ iou_call.returned[1] = 0

(* C21: tracker instances are isolated: an update call on one instance     *)
(* leaves the track mapping and the next-id counter of every other         *)
(* instance as they were, and the tracks of an instance change only in an  *)
(* update call on that instance.                                           *)
C21_InstancesIsolated ==
    [][\A k \in 1..Len(fleet.trackers) :
          Held(fleet', k) # Held(fleet, k) => fleet'.acted = k]_vars

\* Two instances hold different tracks and different counters after an
\* update on the second.
C21_Witness ==
    /\ Len(fleet.trackers) = 2
    /\ fleet.acted = 2
    /\ Held(fleet, 1).tracks # <<>>
    /\ Held(fleet, 2).tracks # <<>>
    /\ Held(fleet, 1).tracks # Held(fleet, 2).tracks
    /\ Held(fleet, 1).next_id # Held(fleet, 2).next_id

(* C22: matching is greedy in the order of the detections: each detection  *)
(* in turn takes the still-unmatched track of its category with the        *)
(* greatest overlap that passes the threshold, and keeps it when a later   *)
(* detection of the call overlaps that track more; the later detection     *)
(* gets another track or spawns one.                                       *)
C22_GreedyInInputOrder ==
    \A i \in Indices :
        Labelled_Boxed(i) =>
            /\ (\E t \in Rivals(i) : /\ RatGE(Overlap(i, t), iou_threshold)
                                      /\ RatGT(Overlap(i, t), Zero))
                  => /\ call.match_ids[i] \in Rivals(i)
                     /\ \A t \in Rivals(i) :
                           RatGE(Overlap(i, call.match_ids[i]), Overlap(i, t))
            /\ call.match_ids[i] # None =>
                  /\ call.match_ids[i] \in LiveIds
                  /\ DictGet(tracks, call.match_ids[i]).bbox = call.detections[i].bbox
                  /\ \A j \in Indices :
                        j > i => /\ call.match_ids[j] # call.match_ids[i]
                                 /\ call.match_ids[j] # None \/ call.born[j] # None

\* A detection took a track that a later detection of the call overlaps
\* more; the later one spawned a track.
C22_Witness ==
    \E i, j \in Indices :
        /\ i < j
        /\ call.match_ids[i] # None
        /\ Label(j) = Label(i)
        /\ RatGT(Overlap(j, call.match_ids[i]), Overlap(i, call.match_ids[i]))
        /\ call.born[j] # None

C24_OneBirthPerUnmatched ==
    /\ \A i \in Indices : (call.match_ids[i] = None) <=> (call.born[i] # None)
    /\ \A i, j \in Births : i # j => call.born[i] # call.born[j]
    /\ next_id = call.before_next_id + Cardinality(Indices \ Matches)
    /\ \A i \in Births : call.born[i] >= call.before_next_id /\ call.born[i] < next_id
    /\ \A i \in Indices : \A j \in Births : call.born[j] \notin Range(call.candidates[i])

\* Two identical detections in the first call of a tracker gave two tracks.
C24_Witness ==
    /\ call.before_next_id = 1
    /\ Len(call.detections) = 2
    /\ call.detections[1] = call.detections[2]
    /\ call.born = <<1, 2>>
    /\ next_id = 3

(* C25: over update calls a track enters the live set with misses = 0; a   *)
(* live track that is matched has misses = 0 after the call and is not     *)
(* removed by it; a live track that is not matched has                     *)
(* 0 < misses <= max_missed after the call, or is removed, and it is       *)
(* removed only from 0 < misses when misses exceeds max_missed.            *)
C25_Lifecycle ==
    /\ \A i \in Births :
          call.born[i] \in LiveIds /\ DictGet(tracks, call.born[i]).misses = 0
    /\ \A k \in 1..Len(call.before) :
          LET old == call.before[k]
          IN  IF old.track_id \in Range(call.match_ids)
              THEN old.track_id \in LiveIds /\ DictGet(tracks, old.track_id).misses = 0
              ELSE IF old.track_id \in LiveIds
              THEN /\ DictGet(tracks, old.track_id).misses > 0
                   /\ DictGet(tracks, old.track_id).misses <= max_missed
              ELSE /\ old.misses > 0
                   /\ old.misses + 1 > max_missed

(* C26: in ObjectTrackingCoordinator.run every task of an event has ended  *)
(* before the next event is taken, an event starts at most one tracking    *)
(* task, and so at most one update of the shared tracker is in flight at   *)
(* any time.                                                               *)
C26_UpdatesSerialized ==
    coord.pc # "off" =>
        /\ Cardinality(UpdatesInFlight) <= 1
        /\ \A event \in 1..coord.taken : Cardinality(TrackingTasks(event)) <= 1
        /\ \A k \in DOMAIN coord.tasks :
              coord.tasks[k].at # "done" => coord.tasks[k].event = coord.taken

C26_Witness ==
    /\ coord.pc # "off"
    /\ \E k \in UpdatesInFlight : coord.tasks[k].event = 2
    /\ \E j \in TrackingTasks(1) : coord.tasks[j].at = "done"

(* C27: a call of should_send_alert made less than the debounce window     *)
(* after the last call that returned True for the same identity (the       *)
(* track_id or, without one, the debounce_key) returns False, whatever was *)
(* alerted in between and whatever the window: two approved alerts of an   *)
(* identity are at least the window apart.                                 *)
C27_DebouncedPerIdentity ==
    (alerts.pc = "on" /\ alerts.calls > 0 /\ alerts.last.since # Never) =>
        (alerts.last.since < alerts.last.window => ~alerts.last.returned)

(* C28: tracking sessions are independent: a step that changes what one    *)
(* ObjectTrackingHandler shows of its tracks and id counter is a detection *)
(* processed through that handler, never one processed through another.    *)
C28_SessionsIndependent ==
    [][\A h \in 1..MaxHandlers :
          (/\ session.pc = "on"
           /\ h \in 1..Len(session.handlers)
           /\ session.handlers[h].initialized
           /\ Observed(session', h) # Observed(session, h))
          => session'.acted = h]_vars

(* C29: replay_tracking calls update in strictly increasing frame_id       *)
(* order whatever the order of the lines; the batch of a call is made of   *)
(* all the detections the log holds for that frame, in log order, and is   *)
(* never empty; and when the replay is over every frame of which the log   *)
(* holds a detection has had its call, so a frame has exactly one call if  *)
(* the log holds a detection of it and none otherwise.  (A line without a  *)
(* frame_id counts as frame 0.)                                            *)
C29_OneUpdatePerLoggedFrame ==
    replay.pc # "off" =>
        /\ \A i \in 1..Len(replay.calls) :
              \A j \in 1..Len(replay.calls) :
                  i < j => replay.calls[i].frame_id < replay.calls[j].frame_id
        /\ \A i \in 1..Len(replay.calls) :
              LET batch == replay.calls[i].detections
                  lines == FrameLines(replay.calls[i].frame_id)
              IN  /\ batch # <<>>
                  /\ Len(batch) = Cardinality(lines)
                  /\ \A k \in 1..Len(batch) :
                        /\ batch[k].ts \in lines
                        /\ \A key \in DOMAIN replay.log[batch[k].ts].details :
                              batch[k][key] = replay.log[batch[k].ts].details[key]
                  /\ \A k \in 1..Len(batch) :
                        \A m \in 1..Len(batch) : k < m => batch[k].ts < batch[m].ts
        /\ replay.pc = "done" =>
              {replay.calls[i].frame_id : i \in 1..Len(replay.calls)}
                  = {LineFrame(replay.log[i]) : i \in DetectionLines}

C29_Witness ==
    /\ replay.pc = "done"
    /\ Len(replay.calls) = 2
    /\ Len(replay.calls[1].detections) = 2
    /\ replay.calls[1].frame_id = 0
    /\ replay.calls[2].frame_id = 2
    /\ LineFrame(replay.log[1]) = 2

(* C30: on the live paths every object_detected event that reaches a       *)
(* tracker causes exactly one update call, whose batch is the one          *)
(* detection of the event and whose frame_id is the event's; the call adds *)
(* one to misses of every track it found other than the one the detection  *)
(* matched (and removes the track when that exceeds max_missed), also when *)
(* the event before carried the same frame_id.                             *)
C30_OneUpdatePerEvent ==
    (session.pc = "on" /\ session.last # NoUpdate) =>
        /\ session.updates = session.detected
        /\ session.last.detections = <<session.last.details>>
        /\ session.last.frame_id = DetGet(session.last.details, "frame_id", 0)
        /\ \A i \in 1..Len(session.last.before) :
              LET track == session.last.before[i]
                  kept == {j \in 1..Len(session.last.after) :
                              session.last.after[j].track_id = track.track_id}
              IN  track.track_id # LiveMatched =>
                      IF track.misses + 1 > session.last.max_missed
                      THEN kept = {}
                      ELSE /\ kept # {}
                           /\ \A j \in kept :
                                 session.last.after[j].misses = track.misses + 1

C30_Witness ==
    /\ session.pc = "on"
    /\ session.last # NoUpdate
    /\ session.prev # NoUpdate
    /\ session.prev.path = session.last.path
    /\ session.prev.frame_id = session.last.frame_id
    /\ LiveMatched # None
    /\ \E i \in 1..Len(session.last.before) :
          /\ session.last.before[i].track_id # LiveMatched
          /\ \E j \in 1..Len(session.last.after) :
                /\ session.last.after[j].track_id = session.last.before[i].track_id
                /\ session.last.after[j].misses = session.last.before[i].misses + 1

====
